---- MODULE Spec2Model ----
(***************************************************************************)
(* A model of rust-backend-proto (src/src/main.rs): the JSON wire codec    *)
(* (find_json_delimiter, BackendSerializer), the server's handler_loop and *)
(* the client's call over a MessageChannel.                                *)
(*                                                                         *)
(* Bytes are one-character strings and a buffer is a sequence of them, so  *)
(* that lengths, offsets and slices are those of the program.              *)
(***************************************************************************)
EXTENDS Integers, Sequences, FiniteSets, TLC

(***************************************************************************)
(* Bounds of the model.                                                    *)
(***************************************************************************)
\* longest payload string (ExampleMessage.msg / ExampleReturn.msg)
MaxMsgLen == 2
\* number of calls the client makes in one behaviour
MaxCalls == 1
\* longest rpc name of a header written by a peer other than this program
MaxRpcLen == 2
\* decodes of one buffer, one after the other, by the codec bench
MaxDecodes == 3
\* sends of peers other than the client and the server
MaxPeerSends == 1
\* frames a peer packs back to back into one datagram
MaxFrames == 3
\* longest buffer handed to find_json_delimiter on its own
MaxScanLen == 4
\* datagrams that reach one UDP socket, and calls made on its channel
MaxUdp == 3

(***************************************************************************)
(* Bytes.                                                                  *)
(***************************************************************************)
LB == "{"
RB == "}"
DQ == "\""
BS == "\\"
COLON == ":"
COMMA == ","

Digits == <<"0", "1", "2", "3", "4", "5", "6", "7", "8", "9">>
DigitSet == {Digits[i] : i \in 1..10}

\* pub const EXAMPLE_RPC_ID: &str = &"ExampleRpc";
EXAMPLE_RPC_ID == <<"E", "x", "a", "m", "p", "l", "e", "R", "p", "c">>

\* the field names serde derives for MessageHeader, ExampleMessage and ExampleReturn
K_rpc == <<"r", "p", "c">>
K_body_size == <<"b", "o", "d", "y", "_", "s", "i", "z", "e">>
K_is_return == <<"i", "s", "_", "r", "e", "t", "u", "r", "n">>
K_msg == <<"m", "s", "g">>

LitTrue == <<"t", "r", "u", "e">>
LitFalse == <<"f", "a", "l", "s", "e">>

\* the characters payload strings are drawn from: a plain letter, the brace the
\* scanner looks for, and the two characters serde_json escapes
MsgChars == {"a", RB, DQ, BS}

RECURSIVE SeqsUpTo(_, _)
SeqsUpTo(S, n) ==
    IF n = 0 THEN {<<>>}
    ELSE LET shorter == SeqsUpTo(S, n - 1)
         IN  shorter \cup {Append(s, c) : s \in {t \in shorter : Len(t) = n - 1}, c \in S}

\* the values of ExampleMessage.msg and ExampleReturn.msg the model ranges over
Msgs == SeqsUpTo(MsgChars, MaxMsgLen)

\* F(x), with x worked out once whatever the number of times F uses it
Let(x, F(_)) == CHOOSE r \in {F(v) : v \in {x}} : TRUE

Prefix(s, n) == SubSeq(s, 1, n)
Suffix(s, n) == SubSeq(s, n + 1, Len(s))

(***************************************************************************)
(* serde_json, writing: to_vec of a string, a usize, a bool and of the     *)
(* derived structs (compact, fields in declaration order).                 *)
(***************************************************************************)
RECURSIVE EscapeString(_)
EscapeString(s) ==
    IF s = <<>> THEN <<>>
    ELSE (IF Head(s) \in {DQ, BS} THEN <<BS, Head(s)>> ELSE <<Head(s)>>)
         \o EscapeString(Tail(s))

WriteString(s) == <<DQ>> \o EscapeString(s) \o <<DQ>>

RECURSIVE WriteUsize(_)
WriteUsize(n) ==
    IF n < 10 THEN <<Digits[n + 1]>>
    ELSE WriteUsize(n \div 10) \o <<Digits[(n % 10) + 1]>>

WriteBool(b) == IF b THEN LitTrue ELSE LitFalse

\* serde_json::to_vec(&MessageHeader { rpc, body_size, is_return })
to_vec_MessageHeader(rpc, body_size, is_return) ==
    <<LB>> \o WriteString(K_rpc) \o <<COLON>> \o WriteString(rpc) \o <<COMMA>>
           \o WriteString(K_body_size) \o <<COLON>> \o WriteUsize(body_size) \o <<COMMA>>
           \o WriteString(K_is_return) \o <<COLON>> \o WriteBool(is_return) \o <<RB>>

\* serde_json::to_vec(&ExampleMessage { msg }), and the same of ExampleReturn
to_vec_ExampleMessage(msg) ==
    <<LB>> \o WriteString(K_msg) \o <<COLON>> \o WriteString(msg) \o <<RB>>

(***************************************************************************)
(* serde_json, reading: from_slice of the derived structs.  A slice is     *)
(* accepted when it is exactly one object whose members are strings,       *)
(* unsigned integers and booleans; every known field occurs once with its  *)
(* type, unknown fields are ignored, and nothing follows the object.       *)
(* A reader returns [ok, pos, val]: pos is the index after what was read.  *)
(***************************************************************************)
ReadFail == [ok |-> FALSE, pos |-> 0, val |-> <<>>]

RECURSIVE ReadStringTail(_, _, _)
ReadStringTail(buf, j, acc) ==
    IF j > Len(buf) THEN ReadFail
    ELSE IF buf[j] = DQ THEN [ok |-> TRUE, pos |-> j + 1, val |-> acc]
    ELSE IF buf[j] = BS
         THEN IF j + 1 <= Len(buf) /\ buf[j + 1] \in {DQ, BS}
              THEN ReadStringTail(buf, j + 2, Append(acc, buf[j + 1]))
              ELSE ReadFail
    ELSE ReadStringTail(buf, j + 1, Append(acc, buf[j]))

ReadString(buf, i) ==
    IF i <= Len(buf) /\ buf[i] = DQ THEN ReadStringTail(buf, i + 1, <<>>) ELSE ReadFail

DigitValue(c) == CHOOSE d \in 0..9 : Digits[d + 1] = c

RECURSIVE ReadDigits(_, _, _)
ReadDigits(buf, j, acc) ==
    IF j <= Len(buf) /\ buf[j] \in DigitSet
    THEN ReadDigits(buf, j + 1, acc * 10 + DigitValue(buf[j]))
    ELSE [ok |-> TRUE, pos |-> j, val |-> acc]

\* a JSON number that fits usize: "0", or a digit 1-9 followed by digits
ReadUsize(buf, i) ==
    IF i > Len(buf) \/ buf[i] \notin DigitSet THEN ReadFail
    ELSE IF buf[i] = "0"
         THEN IF i + 1 <= Len(buf) /\ buf[i + 1] \in DigitSet
              THEN ReadFail
              ELSE [ok |-> TRUE, pos |-> i + 1, val |-> 0]
    ELSE ReadDigits(buf, i, 0)

ReadLiteral(buf, i, lit, v) ==
    IF i + Len(lit) - 1 <= Len(buf) /\ SubSeq(buf, i, i + Len(lit) - 1) = lit
    THEN [ok |-> TRUE, pos |-> i + Len(lit), val |-> v]
    ELSE ReadFail

\* a member's value, tagged with its JSON type
ReadValue(buf, i) ==
    IF i > Len(buf) THEN ReadFail
    ELSE IF buf[i] = DQ
         THEN Let(ReadString(buf, i), LAMBDA r :
                  [r EXCEPT !.val = [t |-> "str", s |-> r.val, n |-> 0, b |-> FALSE]])
    ELSE IF buf[i] \in DigitSet
         THEN Let(ReadUsize(buf, i), LAMBDA r :
                  [r EXCEPT !.val = [t |-> "num", s |-> <<>>, n |-> r.val, b |-> FALSE]])
    ELSE IF buf[i] = "t"
         THEN ReadLiteral(buf, i, LitTrue, [t |-> "bool", s |-> <<>>, n |-> 0, b |-> TRUE])
    ELSE IF buf[i] = "f"
         THEN ReadLiteral(buf, i, LitFalse, [t |-> "bool", s |-> <<>>, n |-> 0, b |-> FALSE])
    ELSE ReadFail

RECURSIVE ReadMembers(_, _, _)
ReadMembers(buf, i, acc) ==
    Let(ReadString(buf, i), LAMBDA k :
        IF ~k.ok \/ k.pos > Len(buf) \/ buf[k.pos] # COLON THEN ReadFail
        ELSE Let(ReadValue(buf, k.pos + 1), LAMBDA v :
                 IF ~v.ok \/ v.pos > Len(buf) THEN ReadFail
                 ELSE Let(Append(acc, [key |-> k.val, val |-> v.val]), LAMBDA members :
                          IF buf[v.pos] = COMMA THEN ReadMembers(buf, v.pos + 1, members)
                          ELSE IF buf[v.pos] = RB
                               THEN [ok |-> TRUE, pos |-> v.pos + 1, val |-> members]
                          ELSE ReadFail)))

\* the members of the object that is the whole of buf
ReadObject(buf) ==
    IF Len(buf) < 2 \/ buf[1] # LB THEN ReadFail
    ELSE Let(IF buf[2] = RB
             THEN [ok |-> TRUE, pos |-> 3, val |-> <<>>]
             ELSE ReadMembers(buf, 2, <<>>),
             LAMBDA r : IF r.ok /\ r.pos = Len(buf) + 1 THEN r ELSE ReadFail)

FieldIdx(members, key) == {i \in 1..Len(members) : members[i].key = key}

\* a known field: present once, with the type the struct declares
FieldOk(members, key, type) ==
    /\ Cardinality(FieldIdx(members, key)) = 1
    /\ \A i \in FieldIdx(members, key) : members[i].val.t = type

Field(members, key) == members[CHOOSE i \in FieldIdx(members, key) : TRUE].val

NoHeader == [ok |-> FALSE, rpc |-> <<>>, body_size |-> 0, is_return |-> FALSE]

\* serde_json::from_slice::<MessageHeader>(buf)
from_slice_MessageHeader(buf) ==
    Let(ReadObject(buf), LAMBDA r :
        IF r.ok /\ FieldOk(r.val, K_rpc, "str") /\ FieldOk(r.val, K_body_size, "num")
               /\ FieldOk(r.val, K_is_return, "bool")
        THEN [ok |-> TRUE, rpc |-> Field(r.val, K_rpc).s,
              body_size |-> Field(r.val, K_body_size).n,
              is_return |-> Field(r.val, K_is_return).b]
        ELSE NoHeader)

\* serde_json::from_slice::<ExampleMessage>(buf), and the same of ExampleReturn
from_slice_ExampleMessage(buf) ==
    Let(ReadObject(buf), LAMBDA r :
        IF r.ok /\ FieldOk(r.val, K_msg, "str")
        THEN [ok |-> TRUE, msg |-> Field(r.val, K_msg).s]
        ELSE [ok |-> FALSE, msg |-> <<>>])

(***************************************************************************)
(* find_json_delimiter.  Option<NonZeroUsize>: 0 stands for None.          *)
(***************************************************************************)
\* the for loop: b = buf[i], count and indent as they are before b is read
RECURSIVE ScanDelimiter(_, _, _, _)
ScanDelimiter(buf, i, count, indent) ==
    IF i > Len(buf) THEN 0
    ELSE IF buf[i] = RB
         THEN IF indent - 1 = 0 THEN count + 1
              ELSE ScanDelimiter(buf, i + 1, count + 1, indent - 1)
    ELSE ScanDelimiter(buf, i + 1, count + 1, indent)

\* a scanner that counts nesting: indent goes up on an opening brace
RECURSIVE ScanNested(_, _, _, _)
ScanNested(buf, i, count, indent) ==
    IF i > Len(buf) THEN 0
    ELSE IF buf[i] = RB
         THEN IF indent - 1 = 0 THEN count + 1
              ELSE ScanNested(buf, i + 1, count + 1, indent - 1)
    ELSE IF buf[i] = LB THEN ScanNested(buf, i + 1, count + 1, indent + 1)
    ELSE ScanNested(buf, i + 1, count + 1, indent)

find_json_delimiter_Nested(buf) ==
    IF Len(buf) >= 1 /\ buf[1] = LB THEN ScanNested(buf, 2, 1, 1) ELSE 0

\* a scanner that takes the last closing brace of the buffer for the delimiter
find_json_delimiter_Last(buf) ==
    LET closing == {i \in 1..Len(buf) : buf[i] = RB}
    IN  IF Len(buf) >= 1 /\ buf[1] = LB /\ closing # {}
        THEN CHOOSE i \in closing : \A j \in closing : j <= i
        ELSE 0

find_json_delimiter(buf) ==
    IF Len(buf) >= 1 /\ buf[1] = LB THEN ScanDelimiter(buf, 2, 1, 1) ELSE 0

(***************************************************************************)
(* BackendSerializer.  A parse ends in one of three ways: it returns       *)
(* Some((len, variant)), it returns None, or it panics.  The one variant   *)
(* of either enum is ExampleRpc, so a variant is its payload's msg.        *)
(***************************************************************************)
None == [tag |-> "None", len |-> 0, msg |-> <<>>, why |-> ""]
Some(len, msg) == [tag |-> "Some", len |-> len, msg |-> msg, why |-> ""]
Panic(why) == [tag |-> "Panic", len |-> 0, msg |-> <<>>, why |-> why]

\* the match on header.rpc: the body slice and its parse, or the panic
ParseBody(buf, header, start) ==
    LET end == start + header.body_size
    IN  IF header.rpc = EXAMPLE_RPC_ID
        THEN IF end > Len(buf) THEN Panic("slice index out of range")
             ELSE Let(from_slice_ExampleMessage(SubSeq(buf, start + 1, end)), LAMBDA m :
                      IF ~m.ok THEN None
                      ELSE IF end = 0 THEN None
                      ELSE Some(end, m.msg))
        ELSE Panic("Unexpected rpc type")

\* parse_rpc_recv returning the body's length in place of the frame's
parse_rpc_recv_BodyLen(buf) ==
    Let(find_json_delimiter(buf), LAMBDA end :
    Let(from_slice_MessageHeader(Prefix(buf, end)), LAMBDA header :
        IF end = 0 \/ ~header.ok THEN None
        ELSE Let(ParseBody(buf, header, end), LAMBDA r :
                 IF r.tag = "Some" THEN Some(header.body_size, r.msg) ELSE r)))

parse_rpc_recv(buf) ==
    Let(find_json_delimiter(buf), LAMBDA end :
        IF end = 0 THEN None
        ELSE Let(from_slice_MessageHeader(Prefix(buf, end)), LAMBDA header :
                 IF ~header.ok THEN None
                 ELSE IF header.is_return
                      THEN Panic("assertion failed: !header.is_return")
                 ELSE ParseBody(buf, header, end)))

\* parse_rpc_result taking the body for an ExampleReturn whatever header.rpc says
parse_rpc_result_AnyTag(buf) ==
    Let(find_json_delimiter(buf), LAMBDA end :
        IF end = 0 THEN None
        ELSE Let(from_slice_MessageHeader(Prefix(buf, end)), LAMBDA header :
                 IF ~header.ok THEN None
                 ELSE IF header.is_return
                      THEN Panic("assertion failed: !header.is_return")
                 ELSE ParseBody(buf, [header EXCEPT !.rpc = EXAMPLE_RPC_ID], end)))

parse_rpc_result(buf) ==
    Let(find_json_delimiter(buf), LAMBDA end :
        IF end = 0 THEN None
        ELSE Let(from_slice_MessageHeader(Prefix(buf, end)), LAMBDA header :
                 IF ~header.ok THEN None
                 ELSE IF header.is_return
                      THEN Panic("assertion failed: !header.is_return")
                 ELSE ParseBody(buf, header, end)))

\* serialize_rpc_arg declaring the length the body would have with nothing escaped
serialize_rpc_arg_Unescaped(msg) ==
    to_vec_MessageHeader(EXAMPLE_RPC_ID, Len(to_vec_ExampleMessage(<<>>)) + Len(msg), FALSE)
        \o to_vec_ExampleMessage(msg)

\* serialize_rpc_arg declaring the length of the string in place of the body's
serialize_rpc_arg_MsgLen(msg) ==
    to_vec_MessageHeader(EXAMPLE_RPC_ID, Len(msg), FALSE) \o to_vec_ExampleMessage(msg)

serialize_rpc_arg(msg) ==
    LET body == to_vec_ExampleMessage(msg)
    IN  to_vec_MessageHeader(EXAMPLE_RPC_ID, Len(body), FALSE) \o body

\* serialize_rpc_ret tagging the frame with a name of its own for the return variant
serialize_rpc_ret_OwnTag(msg) ==
    LET body == to_vec_ExampleMessage(msg)
    IN  to_vec_MessageHeader(EXAMPLE_RPC_ID \o <<"R", "e", "t">>, Len(body), FALSE) \o body

\* serialize_rpc_ret setting is_return, as the flag's name asks of a return frame
serialize_rpc_ret_Flagged(msg) ==
    LET body == to_vec_ExampleMessage(msg)
    IN  to_vec_MessageHeader(EXAMPLE_RPC_ID, Len(body), TRUE) \o body

serialize_rpc_ret(msg) ==
    LET body == to_vec_ExampleMessage(msg)
    IN  to_vec_MessageHeader(EXAMPLE_RPC_ID, Len(body), FALSE) \o body

(***************************************************************************)
(* State.                                                                  *)
(*   tin, tbuf, toff, tres, tside: the codec bench, which applies the      *)
(*     serializer and the parsers to inputs drawn by InitCodec; a buffer   *)
(*     is decoded again and again from the offset the last decode          *)
(*     returned, as handler_loop's drain loop does; tres lists, for each   *)
(*     decode, the offset it started at and what it returned.              *)
(***************************************************************************)
(*   c2s, s2c: the datagrams in flight towards the server and towards the   *)
(*     client, in the order they were sent; npeer counts the peers' sends. *)
(*   cpc, carg, cres, cgot, csends, crecvs, ncalls: the client, where it   *)
(*     is in call_example_message, the argument and the outcome of the     *)
(*     call, the bytes it received, the sends and recvs of this call, and  *)
(*     the calls begun.                                                    *)
(*   spc, sbuf, start, smsg, sret, sfault, srecvs, ssends: the server,     *)
(*     where it is in handler_loop, buf[..end], start, the decoded         *)
(*     variant, ret_buf, the fault it last met, and the recv and send      *)
(*     calls it has made.                                                  *)
(*   udst, upeer, uqueue, ugot, usent, nconnects, ucalls, upc: one          *)
(*     UDPChannel, its field dst, the address its socket is connected to,  *)
(*     the senders of the datagrams waiting in the socket, the senders of  *)
(*     the datagrams recv has returned, the destinations of the datagrams  *)
(*     send has sent, the times recv has connected the socket, the calls   *)
(*     of recv and send made so far, and whether a call has panicked.      *)
(***************************************************************************)
VARIABLES tin, tbuf, toff, tres, tside,
          c2s, s2c, npeer,
          cpc, carg, cres, cgot, csends, crecvs, ncalls,
          spc, sbuf, start, smsg, sret, sfault, srecvs, ssends,
          udst, upeer, uqueue, ugot, usent, nconnects, ucalls, upc

bench == <<tin, tbuf, toff, tres, tside>>
chan == <<c2s, s2c, npeer>>
client == <<cpc, carg, cres, cgot, csends, crecvs, ncalls>>
server == <<spc, sbuf, start, smsg, sret, sfault, srecvs, ssends>>
udp == <<udst, upeer, uqueue, ugot, usent, nconnects, ucalls, upc>>

vars == <<bench, chan, client, server, udp>>

(***************************************************************************)
(* The inputs of the codec bench.                                          *)
(***************************************************************************)
\* rpc names a foreign header may carry: none of them is registered
RpcChars == {"B", RB}
UnknownRpcs == SeqsUpTo(RpcChars, MaxRpcLen)
RpcNames == UnknownRpcs \cup {EXAMPLE_RPC_ID}

ShortMsgs == {m \in Msgs : Len(m) <= 1}

\* bodies that are not an ExampleMessage: no msg field, msg of the wrong type,
\* an object that is not closed
BadBodies ==
    { <<LB, RB>>,
      <<LB>> \o WriteString(K_msg) \o <<COLON, "7", RB>>,
      <<LB>> \o WriteString(K_msg) \o <<COLON>> \o WriteString(<<"a">>) }

ForgedBodies == {to_vec_ExampleMessage(m) : m \in ShortMsgs} \cup BadBodies \cup {<<>>}

Input(kind, msgs, rpc, size, is_return, body, cut) ==
    [kind |-> kind, msgs |-> msgs, rpc |-> rpc, size |-> size,
     is_return |-> is_return, body |-> body, cut |-> cut]

NoInput == Input("none", <<>>, <<>>, 0, FALSE, <<>>, 0)

\* one or two argument values, encoded one after the other
ArgInputs ==
    {Input("arg", <<v>>, <<>>, 0, FALSE, <<>>, 0) : v \in Msgs}
    \cup {Input("arg", <<v, w>>, <<>>, 0, FALSE, <<>>, 0) : v \in Msgs, w \in Msgs}

\* one return value
RetInputs == {Input("ret", <<r>>, <<>>, 0, FALSE, <<>>, 0) : r \in Msgs}

\* the first cut bytes of an encoded argument, short of the whole frame
CutInputs ==
    UNION {{Input("cut", <<v>>, <<>>, 0, FALSE, <<>>, n) :
                n \in 0..(Len(serialize_rpc_arg(v)) - 1)} : v \in Msgs}

\* a header written by a peer, with any rpc name, flag and declared size within
\* one of the body that follows
ForgedInputs ==
    UNION {{Input("forged", <<>>, rpc, size, flag, body, 0) :
                size \in {n \in {Len(body) - 1, Len(body), Len(body) + 1} : n >= 0}} :
           rpc \in RpcNames, flag \in BOOLEAN, body \in ForgedBodies}

CodecInputs == ArgInputs \cup RetInputs \cup CutInputs \cup ForgedInputs

RECURSIVE EncodeArgs(_)
EncodeArgs(msgs) ==
    IF msgs = <<>> THEN <<>>
    ELSE serialize_rpc_arg(Head(msgs)) \o EncodeArgs(Tail(msgs))

(***************************************************************************)
(* The state after construction: nothing in flight, the client before its  *)
(* first call, the server entering handler_loop.                           *)
(***************************************************************************)
NoOutcome == [tag |-> "", msg |-> <<>>]
Ok(msg) == [tag |-> "Ok", msg |-> msg]
Err == [tag |-> "Err", msg |-> <<>>]
Panicked == [tag |-> "Panic", msg |-> <<>>]

\* Option<SocketAddr>::None, and a socket that is connected to no address
NoAddr == "none"

\* the addresses datagrams come from
Addrs == {"A", "B"}

\* the UDPChannel before any datagram has reached it and any call was made on it
InitUdpChannel ==
    /\ uqueue = <<>> /\ ugot = <<>> /\ usent = <<>>
    /\ nconnects = 0 /\ ucalls = 0 /\ upc = "ready"

InitSystem ==
    /\ udst = NoAddr /\ upeer = NoAddr /\ InitUdpChannel
    /\ c2s = <<>> /\ s2c = <<>> /\ npeer = 0
    /\ cpc = "idle" /\ carg = <<>> /\ cres = NoOutcome /\ cgot = <<>>
    /\ csends = 0 /\ crecvs = 0 /\ ncalls = 0
    /\ spc = "recv" /\ sbuf = <<>> /\ start = 0 /\ smsg = <<>> /\ sret = <<>>
    /\ sfault = "" /\ srecvs = 0 /\ ssends = 0

(***************************************************************************)
(* The codec bench.                                                        *)
(***************************************************************************)
InitCodec ==
    /\ tin \in CodecInputs
    /\ tbuf = <<>>
    /\ toff = 0
    /\ tres = <<>>
    /\ tside = "start"
    /\ InitSystem

\* serialize_rpc_arg of each value of the input, appended as buf.append does
EncodeArg ==
    /\ tside = "start" /\ tin.kind = "arg"
    /\ tbuf' = EncodeArgs(tin.msgs)
    /\ tside' = "built"
    /\ UNCHANGED <<tin, toff, tres>>
    /\ UNCHANGED <<chan, client, server, udp>>

EncodeRet ==
    /\ tside = "start" /\ tin.kind = "ret"
    /\ tbuf' = serialize_rpc_ret(tin.msgs[1])
    /\ tside' = "built"
    /\ UNCHANGED <<tin, toff, tres>>
    /\ UNCHANGED <<chan, client, server, udp>>

\* a receive that returns only the first bytes of a frame
EncodeCut ==
    /\ tside = "start" /\ tin.kind = "cut"
    /\ tbuf' = Prefix(serialize_rpc_arg(tin.msgs[1]), tin.cut)
    /\ tside' = "built"
    /\ UNCHANGED <<tin, toff, tres>>
    /\ UNCHANGED <<chan, client, server, udp>>

\* a frame of a peer that writes what it likes into the header
EncodeForged ==
    /\ tside = "start" /\ tin.kind = "forged"
    /\ tbuf' = to_vec_MessageHeader(tin.rpc, tin.size, tin.is_return) \o tin.body
    /\ tside' = "built"
    /\ UNCHANGED <<tin, toff, tres>>
    /\ UNCHANGED <<chan, client, server, udp>>

Decoding(side) ==
    /\ tside \in {"built", side}
    /\ Len(tres) < MaxDecodes
    /\ tres # <<>> => tres[Len(tres)].out.tag = "Some"

\* parse_rpc_recv(&buf[start..end]) and start = new_start.get() + start
DecodeRecv ==
    /\ Decoding("recv")
    /\ \E r \in {parse_rpc_recv(Suffix(tbuf, toff))} :
           /\ tres' = Append(tres, [at |-> toff, out |-> r])
           /\ toff' = IF r.tag = "Some" THEN r.len + toff ELSE toff
    /\ tside' = "recv"
    /\ UNCHANGED <<tin, tbuf>>
    /\ UNCHANGED <<chan, client, server, udp>>

\* the same with parse_rpc_result
DecodeResult ==
    /\ Decoding("result")
    /\ \E r \in {parse_rpc_result(Suffix(tbuf, toff))} :
           /\ tres' = Append(tres, [at |-> toff, out |-> r])
           /\ toff' = IF r.tag = "Some" THEN r.len + toff ELSE toff
    /\ tside' = "result"
    /\ UNCHANGED <<tin, tbuf>>
    /\ UNCHANGED <<chan, client, server, udp>>

NextCodec ==
    \/ EncodeArg
    \/ EncodeRet
    \/ EncodeCut
    \/ EncodeForged
    \/ DecodeRecv
    \/ DecodeResult

SpecCodec == InitCodec /\ [][NextCodec]_vars

(***************************************************************************)
(* The channel.  MessageChannel::send puts a datagram on the channel and   *)
(* returns its length, or fails, or (the trait allows it) returns less     *)
(* than the length; recv blocks until a datagram is there and copies it    *)
(* into the caller's buffer, or fails.  Anyone may send to a UDP socket,   *)
(* so peers put datagrams of their own on the channel.                     *)
(***************************************************************************)
\* let mut buf = [0u8; 4096]; let mut recv_buf = [0u8; 4096];
BufSize == 4096

\* what recv leaves in a buffer of BufSize bytes: buf[..amt]
Received(datagram) ==
    Prefix(datagram, IF Len(datagram) < BufSize THEN Len(datagram) ELSE BufSize)

Forged(rpc, size, is_return, body) == to_vec_MessageHeader(rpc, size, is_return) \o body

\* the arguments the client calls with when channel and handler may fail: a plain
\* string, and one of the closing brace and the characters the writer escapes
CallArgs == {<<"a">>, <<RB, DQ, BS>>}

GoodBody == to_vec_ExampleMessage(<<"a">>)
WrongTypeBody == <<LB>> \o WriteString(K_msg) \o <<COLON, "7", RB>>

\* datagrams a peer sends to the server: two good frames back to back; a frame of an
\* unknown rpc and a frame with a body that is no ExampleMessage, each with a good
\* frame after it; a frame flagged as a return; a frame that declares one byte more
\* than it has
PeerDatagrams ==
    { serialize_rpc_arg(<<"a">>) \o serialize_rpc_arg(<<RB>>),
      Forged(<<"B">>, Len(GoodBody), FALSE, GoodBody) \o serialize_rpc_arg(<<RB>>),
      Forged(EXAMPLE_RPC_ID, Len(WrongTypeBody), FALSE, WrongTypeBody)
          \o serialize_rpc_arg(<<RB>>),
      Forged(EXAMPLE_RPC_ID, Len(GoodBody), TRUE, GoodBody),
      Forged(EXAMPLE_RPC_ID, Len(GoodBody) + 1, FALSE, GoodBody) }

\* where a peer's frame is split when it goes out as two datagrams: inside the header
SplitAt == Len(K_rpc) + Len(K_body_size)

\* datagrams a peer sends to the client: frames tagged for another rpc, plain and with
\* a closing brace in the name; frames tagged ExampleRpc with a good body, with a body
\* that is no ExampleReturn, flagged as a return, declaring one byte more than they
\* have; and the empty datagram
ForgedReplies ==
    { Forged(<<"B">>, Len(GoodBody), FALSE, GoodBody),
      Forged(<<RB>>, Len(GoodBody), FALSE, GoodBody),
      Forged(EXAMPLE_RPC_ID, Len(GoodBody), FALSE, GoodBody),
      Forged(EXAMPLE_RPC_ID, Len(WrongTypeBody), FALSE, WrongTypeBody),
      Forged(EXAMPLE_RPC_ID, Len(GoodBody), TRUE, GoodBody),
      Forged(EXAMPLE_RPC_ID, Len(GoodBody) + 1, FALSE, GoodBody),
      <<>> }

PeerSendToServer ==
    /\ npeer < MaxPeerSends
    /\ \E d \in PeerDatagrams : c2s' = Append(c2s, d)
    /\ npeer' = npeer + 1
    /\ UNCHANGED <<bench, udp, s2c, client, server>>

\* a good frame that reaches the server in two datagrams
PeerSendSplit ==
    /\ npeer < MaxPeerSends
    /\ LET f == serialize_rpc_arg(<<"a">>)
       IN  c2s' = c2s \o <<Prefix(f, SplitAt), Suffix(f, SplitAt)>>
    /\ npeer' = npeer + 1
    /\ UNCHANGED <<bench, udp, s2c, client, server>>

PeerSendToClient ==
    /\ npeer < MaxPeerSends
    /\ \E d \in ForgedReplies : s2c' = Append(s2c, d)
    /\ npeer' = npeer + 1
    /\ UNCHANGED <<bench, udp, c2s, client, server>>

(***************************************************************************)
(* The client: call_example_message and call.                              *)
(***************************************************************************)
\* call_example_message(arg) is entered, with an argument among args
StartCall(args) ==
    /\ cpc \in {"idle", "done"}
    /\ ncalls < MaxCalls
    /\ \E m \in args : carg' = m
    /\ cpc' = "send"
    /\ cres' = NoOutcome /\ cgot' = <<>> /\ csends' = 0 /\ crecvs' = 0
    /\ ncalls' = ncalls + 1
    /\ UNCHANGED <<bench, udp, chan, server>>

\* self.send(&BackendSerializer::serialize_rpc_arg(arg)) returns Ok
CallSend ==
    /\ cpc = "send"
    /\ c2s' = Append(c2s, serialize_rpc_arg(carg))
    /\ csends' = csends + 1
    /\ cpc' = "recv"
    /\ UNCHANGED <<bench, udp, s2c, npeer, carg, cres, cgot, crecvs, ncalls, server>>

\* self.send(..) returns Err: .or(Err(()))? returns Err from call
CallSendFail ==
    /\ cpc = "send"
    /\ csends' = csends + 1
    /\ cres' = Err
    /\ cpc' = "done"
    /\ UNCHANGED <<bench, udp, chan, carg, cgot, crecvs, ncalls, server>>

\* what call and call_example_message make of parse_rpc_result(&recv_buf[..amt])
CallOutcome(parsed) ==
    Let(parsed, LAMBDA r : IF r.tag = "Some" THEN Ok(r.msg)
                           ELSE IF r.tag = "None" THEN Err
                           ELSE Panicked)

\* self.recv(&mut recv_buf) returns Ok(amt); the bytes are parsed
CallRecv ==
    /\ cpc = "recv"
    /\ s2c # <<>>
    /\ \E out \in {CallOutcome(parse_rpc_result(Received(Head(s2c))))} :
           /\ cres' = out
           /\ cpc' = IF out.tag = "Panic" THEN "panicked" ELSE "done"
    /\ cgot' = Received(Head(s2c))
    /\ s2c' = Tail(s2c)
    /\ crecvs' = crecvs + 1
    /\ UNCHANGED <<bench, udp, c2s, npeer, carg, csends, ncalls, server>>

\* self.recv(..) returns Err: .or(Err(()))? returns Err from call
CallRecvFail ==
    /\ cpc = "recv"
    /\ crecvs' = crecvs + 1
    /\ cres' = Err
    /\ cpc' = "done"
    /\ UNCHANGED <<bench, udp, chan, carg, cgot, csends, ncalls, server>>

(***************************************************************************)
(* The server: handler_loop.  spc is "recv" at self.recv, "parse" at the   *)
(* head of the inner loop, "handle" at handle_rpc_received, "send" at      *)
(* self.send and "panicked" once an unwrap, expect, assert or the parser   *)
(* has panicked.                                                           *)
(***************************************************************************)
RecvFailed == "recv failed"
SendFailed == "send failed"
SendShort == "short send"
HandlerFailed == "Unexpected failure to parse msg"

\* let end = self.recv(&mut buf).unwrap(), recv returning Ok; let mut start = 0
ServerRecv ==
    /\ spc = "recv"
    /\ c2s # <<>>
    /\ sbuf' = Received(Head(c2s))
    /\ c2s' = Tail(c2s)
    /\ start' = 0
    /\ srecvs' = srecvs + 1
    /\ spc' = "parse"
    /\ UNCHANGED <<bench, udp, s2c, npeer, client, smsg, sret, sfault, ssends>>

\* recv returning Err, and the loop going round to recv again
ServerRecvFail_Retry ==
    /\ spc = "recv"
    /\ srecvs' = srecvs + 1
    /\ sfault' = RecvFailed
    /\ spc' = "recv"
    /\ UNCHANGED <<bench, udp, chan, client, sbuf, start, smsg, sret, ssends>>

\* recv returning Err: unwrap panics
ServerRecvFail ==
    /\ spc = "recv"
    /\ srecvs' = srecvs + 1
    /\ sfault' = RecvFailed
    /\ spc' = "panicked"
    /\ UNCHANGED <<bench, udp, chan, client, sbuf, start, smsg, sret, ssends>>

\* parse_rpc_recv returning Some, and the loop leaving start where it was
ServerParse_NoAdvance ==
    /\ spc = "parse"
    /\ \E r \in {parse_rpc_recv(Suffix(sbuf, start))} :
           /\ spc' = IF r.tag = "Some" THEN "handle"
                     ELSE IF r.tag = "None" THEN "recv"
                     ELSE "panicked"
           /\ start' = IF r.tag = "Some" THEN start ELSE 0
           /\ sbuf' = IF r.tag = "Some" THEN sbuf ELSE <<>>
           /\ smsg' = IF r.tag = "Some" THEN r.msg ELSE smsg
           /\ sfault' = IF r.tag = "Panic" THEN r.why ELSE sfault
    /\ UNCHANGED <<bench, udp, chan, client, sret, srecvs, ssends>>

\* parse_rpc_recv returning None, and the loop keeping the bytes it has not consumed
\* and putting the next receive after them
ServerParse_Carry ==
    /\ spc = "parse"
    /\ \E r \in {parse_rpc_recv(Suffix(sbuf, start))} :
           IF r.tag = "None" /\ c2s # <<>>
           THEN /\ sbuf' = Suffix(sbuf, start) \o Received(Head(c2s))
                /\ c2s' = Tail(c2s)
                /\ start' = 0
                /\ srecvs' = srecvs + 1
                /\ spc' = "parse"
                /\ UNCHANGED <<smsg, sfault>>
           ELSE /\ spc' = IF r.tag = "Some" THEN "handle"
                          ELSE IF r.tag = "None" THEN "recv"
                          ELSE "panicked"
                /\ start' = IF r.tag = "Some" THEN r.len + start ELSE 0
                /\ sbuf' = IF r.tag = "Some" THEN sbuf ELSE <<>>
                /\ smsg' = IF r.tag = "Some" THEN r.msg ELSE smsg
                /\ sfault' = IF r.tag = "Panic" THEN r.why ELSE sfault
                /\ UNCHANGED <<c2s, srecvs>>
    /\ UNCHANGED <<bench, udp, s2c, npeer, client, sret, ssends>>

\* if let Some((new_start, msg)) = parse_rpc_recv(&buf[start..end]) { start = .. }
\* else { break }.  After the break, and after a panic, what start and buf[..end]
\* held is out of reach: the next recv binds both anew.
ServerParse ==
    /\ spc = "parse"
    /\ \E r \in {parse_rpc_recv(Suffix(sbuf, start))} :
           /\ spc' = IF r.tag = "Some" THEN "handle"
                     ELSE IF r.tag = "None" THEN "recv"
                     ELSE "panicked"
           /\ start' = IF r.tag = "Some" THEN r.len + start ELSE 0
           /\ sbuf' = IF r.tag = "Some" THEN sbuf ELSE <<>>
           /\ smsg' = IF r.tag = "Some" THEN r.msg ELSE smsg
           /\ sfault' = IF r.tag = "Panic" THEN r.why ELSE sfault
    /\ UNCHANGED <<bench, udp, chan, client, sret, srecvs, ssends>>

\* the handler of the end-to-end scenario: it returns the message it is given
handle_example_message(msg) == msg

\* handle_rpc_received(msg) returns Ok(res); ret_buf = serialize_rpc_ret(res)
ServerHandle ==
    /\ spc = "handle"
    /\ sret' = serialize_rpc_ret(handle_example_message(smsg))
    /\ smsg' = <<>>
    /\ spc' = "send"
    /\ UNCHANGED <<bench, udp, chan, client, sbuf, start, sfault, srecvs, ssends>>

\* handle_rpc_received(msg) returns Err, and the loop going on to the next frame
ServerHandleFail_Skip ==
    /\ spc = "handle"
    /\ sfault' = HandlerFailed
    /\ smsg' = <<>>
    /\ spc' = "parse"
    /\ UNCHANGED <<bench, udp, chan, client, sbuf, start, sret, srecvs, ssends>>

\* handle_rpc_received(msg) returns Err: expect panics
ServerHandleFail ==
    /\ spc = "handle"
    /\ sfault' = HandlerFailed
    /\ smsg' = <<>>
    /\ spc' = "panicked"
    /\ UNCHANGED <<bench, udp, chan, client, sbuf, start, sret, srecvs, ssends>>

\* send returning Ok(ret_buf.len()), and the loop leaving the buffer for the next recv
ServerSend_Break ==
    /\ spc = "send"
    /\ s2c' = Append(s2c, sret)
    /\ ssends' = ssends + 1
    /\ sret' = <<>>
    /\ spc' = "recv"
    /\ sbuf' = <<>> /\ start' = 0
    /\ UNCHANGED <<bench, udp, c2s, npeer, client, smsg, sfault, srecvs>>

\* let sent = self.send(&ret_buf).unwrap(), send returning Ok(ret_buf.len())
ServerSend ==
    /\ spc = "send"
    /\ s2c' = Append(s2c, sret)
    /\ ssends' = ssends + 1
    /\ sret' = <<>>
    /\ spc' = "parse"
    /\ UNCHANGED <<bench, udp, c2s, npeer, client, sbuf, start, smsg, sfault, srecvs>>

\* send returning Err: unwrap panics
ServerSendFail ==
    /\ spc = "send"
    /\ ssends' = ssends + 1
    /\ sfault' = SendFailed
    /\ spc' = "panicked"
    /\ UNCHANGED <<bench, udp, chan, client, sbuf, start, smsg, sret, srecvs>>

\* send returning Ok(n) with n < ret_buf.len(): assert_eq!(sent, ret_buf.len()) panics
ServerSendShort ==
    /\ spc = "send"
    /\ \E n \in {0, Len(sret) - 1} : s2c' = Append(s2c, Prefix(sret, n))
    /\ ssends' = ssends + 1
    /\ sfault' = SendShort
    /\ spc' = "panicked"
    /\ UNCHANGED <<bench, udp, c2s, npeer, client, sbuf, start, smsg, sret, srecvs>>

(***************************************************************************)
(* Specifications.                                                         *)
(*   Spec: the client, the server and the peers on a channel that may      *)
(*     fail, with a handler that may fail.                                 *)
(*   SpecLive: the client and the server alone on a channel that delivers  *)
(*     every datagram in order, with the handler that echoes and any       *)
(*     argument of Msgs.  Client and                                       *)
(*     server are two running processes, so a step either can take is      *)
(*     taken in the end.                                                   *)
(***************************************************************************)
Init ==
    /\ tin = NoInput /\ tbuf = <<>> /\ toff = 0 /\ tres = <<>> /\ tside = "off"
    /\ InitSystem

Next ==
    \/ PeerSendToServer
    \/ PeerSendSplit
    \/ PeerSendToClient
    \/ StartCall(CallArgs)
    \/ CallSend
    \/ CallSendFail
    \/ CallRecv
    \/ CallRecvFail
    \/ ServerRecv
    \/ ServerRecvFail
    \/ ServerParse
    \/ ServerHandle
    \/ ServerHandleFail
    \/ ServerSend
    \/ ServerSendFail
    \/ ServerSendShort

Spec == Init /\ [][Next]_vars

NextLive ==
    \/ StartCall(Msgs)
    \/ CallSend
    \/ CallRecv
    \/ ServerRecv
    \/ ServerParse
    \/ ServerHandle
    \/ ServerSend

SpecLive ==
    /\ Init
    /\ [][NextLive]_vars
    /\ WF_vars(CallSend) /\ WF_vars(CallRecv)
    /\ WF_vars(ServerRecv) /\ WF_vars(ServerParse)
    /\ WF_vars(ServerHandle) /\ WF_vars(ServerSend)

(***************************************************************************)
(* The drain bench: one datagram that packs frames back to back reaches    *)
(* the server, which runs handler_loop on it.  tin holds the values of the *)
(* frames and the bytes that follow the last of them, tbuf the datagram.   *)
(***************************************************************************)
\* the values packed into one datagram
DrainMsgs == {<<"a">>, <<RB, DQ>>}

\* up to MaxFrames frames of DrainMsgs, or one frame of any value
DrainSeqs == SeqsUpTo(DrainMsgs, MaxFrames) \cup {<<m>> : m \in Msgs}

\* what follows the last frame: nothing, the first bytes of one more frame, a frame
\* of an unknown rpc
DrainTails ==
    { <<>>,
      Prefix(serialize_rpc_arg(<<"a">>), SplitAt),
      Forged(<<"B">>, Len(GoodBody), FALSE, GoodBody) }

\* frames written by serialize_rpc_arg, as a client's are, and frames written by
\* serialize_rpc_ret, as a server's are
DrainInputs ==
    {Input("drain", msgs, <<>>, 0, FALSE, tail, 0) : msgs \in DrainSeqs, tail \in DrainTails}
    \cup {Input("echoed", msgs, <<>>, 0, FALSE, <<>>, 0) : msgs \in DrainSeqs}

RECURSIVE EncodeRets(_)
EncodeRets(msgs) ==
    IF msgs = <<>> THEN <<>>
    ELSE serialize_rpc_ret(Head(msgs)) \o EncodeRets(Tail(msgs))

InitDrain ==
    /\ tin \in DrainInputs
    /\ tbuf = <<>>
    /\ toff = 0
    /\ tres = <<>>
    /\ tside = "start"
    /\ InitSystem

\* a client's frames, one after the other in one datagram, are sent to the server
DeliverCalls ==
    /\ tside = "start" /\ tin.kind = "drain"
    /\ \E d \in {EncodeArgs(tin.msgs) \o tin.body} :
           /\ tbuf' = d
           /\ c2s' = Append(c2s, d)
    /\ tside' = "sent"
    /\ UNCHANGED <<tin, toff, tres>>
    /\ UNCHANGED <<s2c, npeer, client, server, udp>>

\* the return frames a server emitted are sent to a server
DeliverReturns ==
    /\ tside = "start" /\ tin.kind = "echoed"
    /\ \E d \in {EncodeRets(tin.msgs)} :
           /\ tbuf' = d
           /\ c2s' = Append(c2s, d)
    /\ tside' = "sent"
    /\ UNCHANGED <<tin, toff, tres>>
    /\ UNCHANGED <<s2c, npeer, client, server, udp>>

NextDrain ==
    \/ DeliverCalls
    \/ DeliverReturns
    \/ ServerRecv
    \/ ServerRecvFail
    \/ ServerParse
    \/ ServerHandle
    \/ ServerHandleFail
    \/ ServerSend
    \/ ServerSendFail
    \/ ServerSendShort

\* handler_loop is a running thread: the step it is at is taken in the end, and a
\* handler that is called returns
SpecDrain ==
    /\ InitDrain
    /\ [][NextDrain]_vars
    /\ WF_vars(ServerRecv) /\ WF_vars(ServerParse)
    /\ WF_vars(ServerHandle) /\ WF_vars(ServerSend)

(***************************************************************************)
(* The scanner bench: find_json_delimiter applied to any short buffer of   *)
(* braces and other bytes.  tbuf is the buffer, toff what the scanner      *)
(* returned.                                                               *)
(***************************************************************************)
ScanChars == {LB, RB, "a"}

ScanInputs ==
    {Input("scan", <<>>, <<>>, 0, FALSE, b, 0) : b \in SeqsUpTo(ScanChars, MaxScanLen)}

InitScan ==
    /\ tin \in ScanInputs
    /\ tbuf = <<>>
    /\ toff = 0
    /\ tres = <<>>
    /\ tside = "start"
    /\ InitSystem

\* find_json_delimiter(buf)
Scan ==
    /\ tside = "start" /\ tin.kind = "scan"
    /\ tbuf' = tin.body
    /\ toff' = find_json_delimiter(tin.body)
    /\ tside' = "scanned"
    /\ UNCHANGED <<tin, tres>>
    /\ UNCHANGED <<chan, client, server, udp>>

NextScan == Scan

SpecScan == InitScan /\ [][NextScan]_vars

(***************************************************************************)
(* UDPChannel.  The socket delivers to recv_from the datagrams that have   *)
(* reached it, in their order; once it is connected it takes in datagrams  *)
(* of the connected address only, and keeps those that arrived before.     *)
(* send goes to the connected address and fails on a socket that is not    *)
(* connected.  The program never constructs a UDPChannel: dst starts       *)
(* unset or set, and a socket whose dst is set is connected to it.         *)
(***************************************************************************)
InitUdp ==
    /\ tin = NoInput /\ tbuf = <<>> /\ toff = 0 /\ tres = <<>> /\ tside = "off"
    /\ c2s = <<>> /\ s2c = <<>> /\ npeer = 0
    /\ cpc = "idle" /\ carg = <<>> /\ cres = NoOutcome /\ cgot = <<>>
    /\ csends = 0 /\ crecvs = 0 /\ ncalls = 0
    /\ spc = "recv" /\ sbuf = <<>> /\ start = 0 /\ smsg = <<>> /\ sret = <<>>
    /\ sfault = "" /\ srecvs = 0 /\ ssends = 0
    /\ udst \in {NoAddr} \cup Addrs
    /\ upeer = udst
    /\ InitUdpChannel

\* a datagram of the address a reaches the socket
UdpArrive ==
    /\ Len(uqueue) + Len(ugot) < MaxUdp
    /\ \E a \in Addrs :
           /\ upeer \in {NoAddr, a}
           /\ uqueue' = Append(uqueue, a)
    /\ UNCHANGED <<udst, upeer, ugot, usent, nconnects, ucalls, upc>>
    /\ UNCHANGED <<bench, chan, client, server>>

\* recv: recv_from returns Ok((amt, dst)); if self.dst.is_none(), connect(dst)
\* returns Ok; Ok(amt)
UdpRecv ==
    /\ upc = "ready" /\ ucalls < MaxUdp
    /\ uqueue # <<>>
    /\ ugot' = Append(ugot, Head(uqueue))
    /\ uqueue' = Tail(uqueue)
    /\ IF udst = NoAddr
       THEN upeer' = Head(uqueue) /\ nconnects' = nconnects + 1
       ELSE UNCHANGED <<upeer, nconnects>>
    /\ ucalls' = ucalls + 1
    /\ UNCHANGED <<udst, usent, upc>>
    /\ UNCHANGED <<bench, chan, client, server>>

\* recv: recv_from returns Err, which .or(Err(()))? returns
UdpRecvFail ==
    /\ upc = "ready" /\ ucalls < MaxUdp
    /\ ucalls' = ucalls + 1
    /\ UNCHANGED <<udst, upeer, uqueue, ugot, usent, nconnects, upc>>
    /\ UNCHANGED <<bench, chan, client, server>>

\* recv: recv_from returns Ok, self.dst.is_none(), connect(dst) returns Err: unwrap
\* panics
UdpRecvConnectFail ==
    /\ upc = "ready" /\ ucalls < MaxUdp
    /\ uqueue # <<>>
    /\ udst = NoAddr
    /\ uqueue' = Tail(uqueue)
    /\ ucalls' = ucalls + 1
    /\ upc' = "panicked"
    /\ UNCHANGED <<udst, upeer, ugot, usent, nconnects>>
    /\ UNCHANGED <<bench, chan, client, server>>

\* send: self.socket.send(buf) on a connected socket
UdpSend ==
    /\ upc = "ready" /\ ucalls < MaxUdp
    /\ upeer # NoAddr
    /\ usent' = Append(usent, upeer)
    /\ ucalls' = ucalls + 1
    /\ UNCHANGED <<udst, upeer, uqueue, ugot, nconnects, upc>>
    /\ UNCHANGED <<bench, chan, client, server>>

\* send: self.socket.send(buf) returns Err, as it does on a socket that is not
\* connected; .or(Err(())) returns it
UdpSendFail ==
    /\ upc = "ready" /\ ucalls < MaxUdp
    /\ ucalls' = ucalls + 1
    /\ UNCHANGED <<udst, upeer, uqueue, ugot, usent, nconnects, upc>>
    /\ UNCHANGED <<bench, chan, client, server>>

NextUdp ==
    \/ UdpArrive
    \/ UdpRecv
    \/ UdpRecvFail
    \/ UdpRecvConnectFail
    \/ UdpSend
    \/ UdpSendFail

SpecUdp == InitUdp /\ [][NextUdp]_vars

(***************************************************************************)
(* Claims about the codec, checked under SpecCodec.                        *)
(***************************************************************************)
Decoded(side) == tside = side /\ tres # <<>>

FrameLen(msg) ==
    Len(to_vec_MessageHeader(EXAMPLE_RPC_ID, Len(to_vec_ExampleMessage(msg)), FALSE))
    + Len(to_vec_ExampleMessage(msg))

\* C1: round trip.  parse_rpc_recv of serialize_rpc_arg(ExampleRpc(v)) returns
\* Some((len, ExampleRpc(v))) with len the whole length of the encoded bytes, header
\* plus body; and so does parse_rpc_result of serialize_rpc_ret(ExampleRpc(r)).
C1_RoundTrip ==
    /\ (tin.kind = "arg" /\ Len(tin.msgs) = 1 /\ Decoded("recv"))
          => /\ tres[1].out = Some(Len(tbuf), tin.msgs[1])
             /\ Len(tbuf) = FrameLen(tin.msgs[1])
    /\ (tin.kind = "ret" /\ Decoded("result"))
          => /\ tres[1].out = Some(Len(tbuf), tin.msgs[1])
             /\ Len(tbuf) = FrameLen(tin.msgs[1])

\* C1 witness: a return value made of the two characters the writer escapes has been
\* encoded and decoded
C1_Witness ==
    /\ tin.kind = "ret" /\ tin.msgs[1] = <<DQ, BS>>
    /\ Decoded("result") /\ tres[1].out.tag = "Some"

\* a buffer cut short: the first bytes of a frame this program encodes, or a header
\* it accepts (registered rpc, is_return false) that declares more bytes than follow
PartialBuffer ==
    \/ tin.kind = "cut"
    \/ /\ tin.kind = "forged" /\ tin.rpc = EXAMPLE_RPC_ID /\ ~tin.is_return
       /\ tin.size > Len(tin.body)

\* C2: partial buffer.  parse_rpc_recv and parse_rpc_result of a buffer that holds
\* less than a whole header, or a whole header whose body_size exceeds the bytes
\* after it, return None: no panic, no variant.
C2_PartialBufferIsIncomplete ==
    (PartialBuffer /\ (Decoded("recv") \/ Decoded("result"))) => tres[1].out = None

\* C3: sequential framing.  Decoding f1 \o f2 at offset 0 and again at the offset the
\* first decode returned gives what decoding f1 and f2 apart gives; the first decode
\* consumes Len(f1), the second starts there and consumes Len(f2).
C3_SequentialFraming ==
    (tin.kind = "arg" /\ Len(tin.msgs) = 2 /\ Decoded("recv")) =>
        LET f1 == serialize_rpc_arg(tin.msgs[1])
            f2 == serialize_rpc_arg(tin.msgs[2])
        IN  /\ tres[1].at = 0
            /\ tres[1].out = parse_rpc_recv(f1)
            /\ tres[1].out = Some(Len(f1), tin.msgs[1])
            /\ Len(tres) >= 2 =>
                  /\ tres[2].at = Len(f1)
                  /\ tres[2].out = parse_rpc_recv(f2)
                  /\ tres[2].out = Some(Len(f2), tin.msgs[2])
                  /\ toff = Len(f1) + Len(f2)

\* C3 witness: two frames whose payloads hold a closing brace have both been decoded
C3_Witness ==
    /\ tin.kind = "arg" /\ tin.msgs = <<<<RB>>, <<"a", RB>>>>
    /\ tside = "recv" /\ Len(tres) >= 2 /\ tres[2].out.tag = "Some"

\* C6: unknown rpc.  A buffer that starts with a well-formed header whose rpc is not
\* "ExampleRpc" makes parse_rpc_recv and parse_rpc_result fail fatally: neither a
\* variant nor None comes back.
C6_UnknownRpcIsFatal ==
    (tin.kind = "forged" /\ tin.rpc # EXAMPLE_RPC_ID
        /\ (Decoded("recv") \/ Decoded("result")))
    => tres[1].out.tag = "Panic"

(***************************************************************************)
(* Claims about the call and the loop, checked under Spec and SpecLive.    *)
(***************************************************************************)
StartsWith(buf, f) == Len(buf) >= Len(f) /\ Prefix(buf, Len(f)) = f

CallEnded == cpc \in {"done", "panicked"}

\* C4: end to end.  On a channel that delivers every datagram in order, a call of
\* call_example_message(m) against handler_loop with the echoing handler returns
\* Ok with the handler's return value for m in the end, and the server has sent one
\* return frame for it.
C4_EndToEnd ==
    /\ (cpc = "send") ~> (cpc = "done" /\ cres = Ok(handle_example_message(carg)))
    /\ [](cpc = "done" => (ssends = ncalls /\ s2c = <<>>))

\* C4 witness: the call with the closing brace and the quote has returned Ok with them
C4_Witness ==
    /\ cpc = "done" /\ carg = <<RB, DQ>> /\ cres = Ok(<<RB, DQ>>)
    /\ ssends = 1 /\ srecvs = 1

\* the frames of PeerDatagrams whose decoding is a fault: an unknown rpc, a body that
\* is no ExampleMessage
FaultyFrames ==
    { Forged(<<"B">>, Len(GoodBody), FALSE, GoodBody),
      Forged(EXAMPLE_RPC_ID, Len(WrongTypeBody), FALSE, WrongTypeBody) }

\* C5: decode faults are fatal.  When the frame at the offset names an unknown rpc, or
\* has a body that does not parse as the payload, handler_loop aborts: it does not
\* skip the frame, or the rest of the buffer, and go on to later receives.
C5_DecodeFaultsAbort ==
    [][(spc = "parse" /\ \E f \in FaultyFrames : StartsWith(Suffix(sbuf, start), f))
          => spc' = "panicked"]_vars

\* the bytes hold a whole return frame, for the value msg
HoldsReturnFrame(buf, msg) ==
    StartsWith(buf, to_vec_MessageHeader(EXAMPLE_RPC_ID,
                                         Len(to_vec_ExampleMessage(msg)), FALSE)
                    \o to_vec_ExampleMessage(msg))

\* C7: call outcome.  A call sends once and, only if the send succeeded, receives
\* once; it ends with the decoded return variant or with Err.  A failed send, a failed
\* recv and bytes that hold no whole return frame each end it with Err.
C7_CallOutcome ==
    /\ csends <= 1 /\ crecvs <= 1
    /\ crecvs = 1 => (csends = 1 /\ cpc # "send")
    /\ cpc = "recv" => (csends = 1 /\ crecvs = 0)
    /\ CallEnded =>
          /\ csends = 1
          /\ cres.tag \in {"Ok", "Err"}
          /\ cres.tag = "Ok" => HoldsReturnFrame(cgot, cres.msg)
          /\ (\A m \in Msgs \cup CallArgs : ~HoldsReturnFrame(cgot, m)) => cres = Err

\* a well-formed return frame tagged for another rpc
TaggedOther(buf) ==
    \E rpc \in {<<"B">>, <<RB>>} : StartsWith(buf, Forged(rpc, Len(GoodBody), FALSE, GoodBody))

\* C8: tag mismatch.  A call that receives a well-formed return frame tagged for
\* another rpc fails; call_example_message returns Ok only with the payload of a
\* return frame tagged "ExampleRpc".
C8_TagMismatchRejected ==
    /\ (CallEnded /\ TaggedOther(cgot)) => cres.tag \in {"Err", "Panic"}
    /\ cres.tag = "Ok" => HoldsReturnFrame(cgot, cres.msg)

\* C8 witness: the client has received a frame tagged "B" and the call has failed
C8_Witness ==
    /\ StartsWith(cgot, Forged(<<"B">>, Len(GoodBody), FALSE, GoodBody))
    /\ crecvs = 1 /\ cres.tag = "Panic"

\* C9: handler failure.  When the handler returns Err for a decoded request,
\* handler_loop ends there: no return frame goes out for that request, and no send
\* and no recv is made after it.
C9_HandlerFailureIsFatal ==
    [][sfault' = HandlerFailed =>
          (spc' = "panicked" /\ ssends' = ssends /\ srecvs' = srecvs)]_vars

\* C9 witness: the handler failed on the second frame of a datagram, after the first
\* was answered, and datagrams are still waiting
C9_Witness ==
    /\ sfault = HandlerFailed /\ spc = "panicked"
    /\ ssends = 1 /\ srecvs = 1 /\ c2s # <<>>

TransportFaults == {RecvFailed, SendFailed, SendShort}

DecodePanics ==
    {"Unexpected rpc type", "assertion failed: !header.is_return", "slice index out of range"}

\* a transport fault ends the loop, and an ended loop makes no recv and no send
TransportFaultsEndLoop ==
    [][/\ sfault' \in TransportFaults => spc' = "panicked"
       /\ spc = "panicked" => (spc' = "panicked" /\ srecvs' = srecvs /\ ssends' = ssends)]_vars

\* C10 as claimed: a failed recv, a failed send and a short send end handler_loop,
\* with no recv or send after; the loop has no normal end and stops only on such a
\* fault.
C10_StopsOnlyOnTransportFault ==
    /\ TransportFaultsEndLoop
    /\ [](spc \in {"recv", "parse", "handle", "send", "panicked"})
    /\ [](spc = "panicked" => sfault \in TransportFaults)

\* C10 as amended: a failed recv, a failed send and a short send end handler_loop,
\* with no recv or send after; the loop has no normal end and stops only by a panic:
\* on such a fault, on a failure of the handler, or on a panic of parse_rpc_recv.
C10_StopsOnlyOnFault ==
    /\ TransportFaultsEndLoop
    /\ [](spc \in {"recv", "parse", "handle", "send", "panicked"})
    /\ [](spc = "panicked" => sfault \in TransportFaults \cup {HandlerFailed} \cup DecodePanics)

\* C10 witness: a short send has ended the loop while a datagram was waiting
C10_Witness ==
    /\ spc = "panicked" /\ sfault = SendShort
    /\ c2s # <<>> /\ ssends = 1

(***************************************************************************)
(* Claims about the drain loop, checked under SpecDrain.                   *)
(***************************************************************************)
\* the return frames of the echoing handler for the requests msgs, in their order
Returns(msgs) ==
    [i \in 1..Len(msgs) |-> serialize_rpc_ret(handle_example_message(msgs[i]))]

\* the offset after the first i frames of msgs
OffsetAfter(msgs, i) == Len(EncodeArgs(SubSeq(msgs, 1, i)))

\* C11: drain ordering.  When one receive holds k whole argument frames back to back,
\* handler_loop hands frame 1..k to the handler and sends their k return frames in
\* that order; frame i+1 is decoded and handled only when the return frame of frame i
\* has been sent; and no recv is made before all k are answered.
C11_DrainOrdering ==
    (tin.kind = "drain" /\ tin.body = <<>> /\ sfault = "") =>
        LET msgs == tin.msgs
            k == Len(tin.msgs)
        IN  /\ ssends <= k
            /\ s2c = Returns(SubSeq(msgs, 1, ssends))
            /\ srecvs <= 1
            /\ spc = "parse" => (srecvs = 1 /\ start = OffsetAfter(msgs, ssends))
            /\ spc = "handle" =>
                  /\ srecvs = 1 /\ ssends < k
                  /\ smsg = msgs[ssends + 1]
                  /\ start = OffsetAfter(msgs, ssends + 1)
            /\ spc = "send" =>
                  /\ srecvs = 1 /\ ssends < k
                  /\ sret = Returns(msgs)[ssends + 1]
                  /\ start = OffsetAfter(msgs, ssends + 1)
            /\ (spc = "recv" /\ srecvs = 1) => ssends = k

\* C11 witness: a datagram of MaxFrames frames has been drained, every frame answered,
\* and the server is back at recv
C11_Witness ==
    /\ tin.kind = "drain" /\ tin.body = <<>> /\ Len(tin.msgs) = MaxFrames
    /\ spc = "recv" /\ srecvs = 1 /\ ssends = MaxFrames /\ sfault = ""
    /\ s2c = Returns(tin.msgs)

(***************************************************************************)
(* Claims about what handler_loop keeps between receives, checked under    *)
(* Spec.                                                                   *)
(***************************************************************************)
\* the two datagrams a split frame arrives in
SplitHalves ==
    { Prefix(serialize_rpc_arg(<<"a">>), SplitAt), Suffix(serialize_rpc_arg(<<"a">>), SplitAt) }

\* C12: no residual buffering.  When the decode at the offset returns None,
\* handler_loop goes back to recv and the bytes it had not consumed are gone; the next
\* receive is decoded from offset 0 and holds the newly received bytes only; a request
\* reaches the handler only when its whole frame lies in the bytes of one receive, so a
\* frame split over two receives never reaches it.
C12_NoResidualBuffering ==
    /\ [][(server' # server /\ spc = "parse"
              /\ parse_rpc_recv(Suffix(sbuf, start)).tag = "None")
          => (spc' = "recv" /\ sbuf' = <<>> /\ start' = 0
                 /\ ssends' = ssends /\ srecvs' = srecvs)]_vars
    /\ [][(srecvs' # srecvs /\ spc' = "parse")
          => (c2s # <<>> /\ sbuf' = Received(Head(c2s)) /\ start' = 0)]_vars
    /\ [][(spc = "parse" /\ spc' = "handle")
          => (sbuf' = sbuf /\ StartsWith(Suffix(sbuf, start), serialize_rpc_arg(smsg')))]_vars
    /\ [][(sbuf \in SplitHalves) => (spc' # "handle" /\ spc' # "send")]_vars

\* C12 witness: both halves of a split frame have been received, nothing else was
\* sent to the server, and the server is back at recv without having answered
C12_Witness ==
    /\ npeer = 1 /\ ncalls = 0 /\ c2s = <<>>
    /\ srecvs = 2 /\ ssends = 0 /\ spc = "recv" /\ sfault = ""

(***************************************************************************)
(* Claims about the scanner, checked under SpecScan.                       *)
(***************************************************************************)
\* the positions of the closing braces of buf, counted from 1
ClosingBraces(buf) == {i \in 1..Len(buf) : buf[i] = RB}

\* the smallest member of a non-empty set of numbers
Least(S) == CHOOSE i \in S : \A j \in S : i <= j

\* C13: scanner result.  find_json_delimiter returns None for the empty buffer, for a
\* buffer whose first byte is not '{' and for a buffer without '}'; otherwise it
\* returns the number of bytes up to and with the first '}', however many '{' come
\* before it.  What it returns is above 0 and at most the length of the buffer.
C13_ScannerResult ==
    tside = "scanned" =>
        IF tbuf = <<>> \/ tbuf[1] # LB \/ ClosingBraces(tbuf) = {}
        THEN toff = 0
        ELSE /\ toff = Least(ClosingBraces(tbuf))
             /\ toff > 0
             /\ toff <= Len(tbuf)

\* C13 witness: a buffer with two opening braces before its first closing brace has
\* been scanned
C13_Witness ==
    /\ tside = "scanned" /\ tbuf = <<LB, LB, RB, RB>>
    /\ toff = 3

(***************************************************************************)
(* Claims about braces in strings, checked under SpecCodec.                *)
(***************************************************************************)
\* the length of the header serialize_rpc_arg writes for the value msg
HeaderLen(msg) ==
    Len(to_vec_MessageHeader(EXAMPLE_RPC_ID, Len(to_vec_ExampleMessage(msg)), FALSE))

HasBrace(str) == \E i \in 1..Len(str) : str[i] = RB

\* one argument frame whose payload string holds a closing brace has been decoded
BraceInPayload ==
    /\ tin.kind = "arg" /\ Len(tin.msgs) = 1 /\ HasBrace(tin.msgs[1])
    /\ Decoded("recv")

\* C14 as claimed: for a frame of serialize_rpc_arg whose payload string holds a '}',
\* find_json_delimiter returns an offset that is not the header's length, and
\* parse_rpc_recv does not give the frame's value back.
C14_PayloadBraceBreaksFraming ==
    BraceInPayload =>
        /\ find_json_delimiter(tbuf) # HeaderLen(tin.msgs[1])
        /\ tres[1].out # Some(Len(tbuf), tin.msgs[1])

\* C14 as amended: for a frame of serialize_rpc_arg whose payload string holds a '}',
\* find_json_delimiter returns the header's length, the header's own '}' being the
\* first of the frame, and parse_rpc_recv gives the value back; the scanner cuts the
\* header short only when the '}' is in the header's rpc name, which
\* serialize_rpc_arg never writes, and then parse_rpc_recv returns None.
C14_PayloadBraceIsHarmless ==
    /\ BraceInPayload =>
          /\ find_json_delimiter(tbuf) = HeaderLen(tin.msgs[1])
          /\ tres[1].out = Some(Len(tbuf), tin.msgs[1])
    /\ (tin.kind = "forged" /\ HasBrace(tin.rpc) /\ Decoded("recv")) =>
          /\ find_json_delimiter(tbuf) > 0
          /\ find_json_delimiter(tbuf)
                < Len(to_vec_MessageHeader(tin.rpc, tin.size, tin.is_return))
          /\ tres[1].out = None
    /\ tin.kind = "arg" => ~HasBrace(EXAMPLE_RPC_ID)

\* C14 witness: the frame of the value "}}" has been decoded and came back whole
C14_Witness ==
    /\ BraceInPayload /\ tin.msgs[1] = <<RB, RB>>
    /\ tres[1].out.tag = "Some" /\ tres[1].out.msg = <<RB, RB>>

(***************************************************************************)
(* Claims about the is_return flag, checked under SpecCodec.               *)
(***************************************************************************)
\* the header at the front of a frame that serialize_rpc_arg or serialize_rpc_ret
\* wrote for the value msg
WrittenHeader(buf, msg) == from_slice_MessageHeader(Prefix(buf, HeaderLen(msg)))

\* a header that is well formed and has is_return = true leads the buffer
FlaggedHeader ==
    /\ tin.kind = "forged" /\ tin.is_return
    /\ from_slice_MessageHeader(to_vec_MessageHeader(tin.rpc, tin.size, tin.is_return)).ok

\* C15: is_return flag.  Every frame serialize_rpc_arg and serialize_rpc_ret write
\* has is_return = false, and parse_rpc_recv and parse_rpc_result fail fatally on a
\* well-formed header with is_return = true: neither a variant nor None comes back.
C15_ReturnFlagIsFatal ==
    /\ (tin.kind \in {"arg", "ret"} /\ tside # "start") =>
          /\ WrittenHeader(tbuf, tin.msgs[1]).ok
          /\ ~WrittenHeader(tbuf, tin.msgs[1]).is_return
    /\ (FlaggedHeader /\ (Decoded("recv") \/ Decoded("result"))) =>
          tres[1].out.tag = "Panic"

(***************************************************************************)
(* Claims about the frames on the wire, checked under Spec.                *)
(***************************************************************************)
\* f is a header followed by a body: the header's body_size is the number of bytes
\* after the header, its rpc is "ExampleRpc", the identifier of the one variant, and
\* the body is that variant's payload with the value msg
WellFramed(f, msg) ==
    \E n \in {i \in 1..Len(f) : f[i] = RB} :
        Let(from_slice_MessageHeader(Prefix(f, n)), LAMBDA header :
            /\ header.ok
            /\ header.body_size = Len(f) - n
            /\ header.rpc = EXAMPLE_RPC_ID
            /\ from_slice_ExampleMessage(Suffix(f, n)) = [ok |-> TRUE, msg |-> msg])

\* C16: header invariant on the wire.  In every frame the client hands to send and in
\* every frame the server hands to send, body_size is the number of body bytes after
\* the header and rpc names the variant that was encoded.
C16_HeaderInvariantOnWire ==
    /\ [][(csends' = csends + 1 /\ c2s' # c2s)
          => WellFramed(c2s'[Len(c2s')], carg)]_vars
    /\ [][(spc = "handle" /\ spc' = "send")
          => WellFramed(sret', handle_example_message(smsg))]_vars
    /\ [][(spc = "send" /\ spc' = "send") => sret' = sret]_vars
    /\ [][ssends' = ssends + 1 => spc = "send"]_vars
    /\ [][(ssends' = ssends + 1 /\ sfault' = sfault) => s2c' = Append(s2c, sret)]_vars

\* C16 witness: the call with the brace, the quote and the backslash went out, was
\* answered by the server and returned
C16_Witness ==
    /\ cpc = "done" /\ cres = Ok(<<RB, DQ, BS>>)
    /\ csends = 1 /\ ssends = 1 /\ npeer = 0

(***************************************************************************)
(* Claims about UDPChannel, checked under SpecUdp.                         *)
(***************************************************************************)
\* C17: connect on first receive.  On a UDPChannel whose dst is unset, the first recv
\* that succeeds pins the sends to the sender of its datagram, and only that recv
\* pins: later recvs that succeed neither connect again nor change the pinned
\* address.  A recv that fails pins nothing.
C17_ConnectOnFirstReceive ==
    udst = NoAddr =>
        /\ ugot = <<>> => (upeer = NoAddr /\ nconnects = 0)
        /\ (ugot # <<>> /\ upc = "ready") => (upeer = ugot[1] /\ nconnects = 1)
        /\ \A i \in 1..Len(usent) : ugot # <<>> /\ usent[i] = ugot[1]

(***************************************************************************)
(* Claims about the end of the drain loop, checked under SpecDrain.        *)
(***************************************************************************)
\* C18: drain termination.  On the bytes of one recv the inner loop of handler_loop
\* ends after finitely many rounds: every decode that succeeds moves start up, start
\* never passes the number of bytes received, and nothing else moves it during the
\* drain; so the server gets back to recv, unless a fault has ended the loop.
C18_DrainTerminates ==
    /\ [][(spc = "parse" /\ spc' = "handle")
          => (start' > start /\ start' <= Len(sbuf) /\ sbuf' = sbuf)]_vars
    /\ [][(spc \in {"handle", "send"} /\ spc' \in {"send", "parse"})
          => (start' = start /\ sbuf' = sbuf)]_vars
    /\ [](start <= Len(sbuf))
    /\ (spc = "parse") ~> (spc = "recv" \/ spc = "panicked")

\* C18 witness: MaxFrames frames and the first bytes of one more have been drained and
\* the server is back at recv
C18_Witness ==
    /\ tin.kind = "drain" /\ Len(tin.msgs) = MaxFrames
    /\ tin.body = Prefix(serialize_rpc_arg(<<"a">>), SplitAt)
    /\ spc = "recv" /\ srecvs = 1 /\ ssends = MaxFrames /\ sfault = ""

(***************************************************************************)
(* Claims about return frames taken for calls, checked under SpecDrain.    *)
(***************************************************************************)
\* C19: call and result frames are the same bytes.  serialize_rpc_ret of
\* ExampleRpc{msg: s} writes what serialize_rpc_arg of ExampleRpc{msg: s} writes; so
\* parse_rpc_recv takes every return frame a server emits for a call frame, and a
\* handler_loop that receives return frames handles each and sends a reply to each.
C19_ReturnFramesAreCallFrames ==
    tin.kind = "echoed" =>
        LET msgs == tin.msgs
            k == Len(tin.msgs)
        IN  /\ tside = "sent" =>
                  /\ tbuf = EncodeArgs(msgs)
                  /\ \A i \in 1..k : serialize_rpc_ret(msgs[i]) = serialize_rpc_arg(msgs[i])
            /\ sfault \notin DecodePanics
            /\ sfault = "" =>
                  /\ ssends <= k
                  /\ s2c = Returns(SubSeq(msgs, 1, ssends))
                  /\ spc = "handle" => (ssends < k /\ smsg = msgs[ssends + 1])
                  /\ (spc = "recv" /\ srecvs = 1) => ssends = k

\* C19 witness: a server has received the return frame of the value with the quote
\* and the brace, has handled it as a call and has sent its reply
C19_Witness ==
    /\ tin.kind = "echoed" /\ tin.msgs = <<<<DQ, RB>>>>
    /\ tbuf = serialize_rpc_ret(<<DQ, RB>>)
    /\ spc = "recv" /\ srecvs = 1 /\ ssends = 1
    /\ s2c = <<serialize_rpc_ret(handle_example_message(<<DQ, RB>>))>>

====
